---- MODULE Spec2Model ----
(***************************************************************************)
(* A model of autopxd's AutoPxd visitor (src/autopxd/__init__.py): the     *)
(* walk over a pycparser AST that builds the .pxd declaration nodes, and   *)
(* translate(), which renders them.                                        *)
(*                                                                         *)
(* Representation.  A Python str is a sequence of whitespace-free words:   *)
(* the text is the words joined by single spaces, so ' '.join is           *)
(* concatenation of word sequences, str.split() yields the words, and      *)
(* prefix + text glues the prefix onto the first word.  A word is a TLA+   *)
(* string.  A Python object is a record with a cls field.  The recursion   *)
(* of NodeVisitor.visit is unfolded into an explicit machine: visit_stack  *)
(* is the program's own stack of nodes, pos[i] counts the children of      *)
(* visit_stack[i] that generic_visit has already visited.                  *)
(***************************************************************************)
EXTENDS Integers, Sequences, FiniteSets, TLC

VARIABLES ast, visit_stack, pos, decl_stack, stdint_declarations,
          dimension_stack, constants, status, pxd_string

vars == <<ast, visit_stack, pos, decl_stack, stdint_declarations,
          dimension_stack, constants, status, pxd_string>>

\* Largest number of top-level declarations of one translated header.
MaxDecls == 2

\* Largest integer literal int() is asked to parse in the headers below.
MaxLiteral == 9

\* Python's None, where a name is expected.
None == "$None"

\* An absent child node (None in a c_ast slot).
NoNode == [kind |-> "None"]

\* PxdNode.indent
Indent == "    "

hdrname == "h.test"

STDINT_DECLARATIONS ==
    {"int8_t", "uint8_t", "int16_t", "uint16_t", "int32_t", "uint32_t",
     "int64_t", "uint64_t", "int_least8_t", "uint_least8_t", "int_least16_t",
     "uint_least16_t", "int_least32_t", "uint_least32_t", "int_least64_t",
     "uint_least64_t", "int_fast8_t", "uint_fast8_t", "int_fast16_t",
     "uint_fast16_t", "int_fast32_t", "uint_fast32_t", "int_fast64_t",
     "uint_fast64_t", "intptr_t", "uintptr_t", "intmax_t", "uintmax_t"}

-----------------------------------------------------------------------------
(* The input: pycparser c_ast nodes, with the fields the visitor reads.    *)

ast_FileAST(ext) == [kind |-> "FileAST", ext |-> ext]
ast_IdentifierType(names) == [kind |-> "IdentifierType", names |-> names]
ast_TypeDecl(declname, type) ==
    [kind |-> "TypeDecl", declname |-> declname, type |-> type]
ast_Decl(name, type) == [kind |-> "Decl", name |-> name, type |-> type]
ast_Typedef(name, type) == [kind |-> "Typedef", name |-> name, type |-> type]
ast_Typename(name, type) == [kind |-> "Typename", name |-> name, type |-> type]
ast_PtrDecl(type) == [kind |-> "PtrDecl", type |-> type]
ast_ArrayDecl(type, dim) == [kind |-> "ArrayDecl", type |-> type, dim |-> dim]
ast_FuncDecl(args, type) == [kind |-> "FuncDecl", args |-> args, type |-> type]
ast_ParamList(params) == [kind |-> "ParamList", params |-> params]
ast_Struct(name, decls) == [kind |-> "Struct", name |-> name, decls |-> decls]
ast_Union(name, decls) == [kind |-> "Union", name |-> name, decls |-> decls]
ast_Enum(name, values) == [kind |-> "Enum", name |-> name, values |-> values]
ast_Enumerator(name, value) ==
    [kind |-> "Enumerator", name |-> name, value |-> value]
ast_Constant(value) == [kind |-> "Constant", value |-> value]
ast_ID(name) == [kind |-> "ID", name |-> name]

\* c_ast Node.children(), in pycparser's order; generic_visit iterates it.
children(node) ==
    CASE node.kind = "FileAST" -> node.ext
      [] node.kind \in {"Decl", "Typedef", "Typename", "TypeDecl", "PtrDecl"}
            -> <<node.type>>
      [] node.kind = "ArrayDecl"
            -> <<node.type>> \o (IF node.dim.kind = "None" THEN <<>> ELSE <<node.dim>>)
      [] node.kind = "FuncDecl"
            -> (IF node.args.kind = "None" THEN <<>> ELSE <<node.args>>) \o <<node.type>>
      [] node.kind = "ParamList" -> node.params
      [] node.kind \in {"Struct", "Union"} -> node.decls
      [] OTHER -> <<>>

-----------------------------------------------------------------------------
(* The output: PxdNode classes.                                            *)

PyStr(text) == [cls |-> "str", text |-> text]
PyNone == [cls |-> "NoneType"]
\* A name handed to append(): a str, or None.
PyName(name) == IF name = None THEN PyNone ELSE PyStr(<<name>>)

IdentifierType(name, type_name) ==
    [cls |-> "IdentifierType",
     name |-> IF name = None THEN "" ELSE name,
     type_name |-> type_name]
Function(return_type, name, args) ==
    [cls |-> "Function", return_type |-> return_type, name |-> name, args |-> args]
Ptr(node) == [cls |-> "Ptr", node |-> node]
Array(node, dimensions) == [cls |-> "Array", node |-> node, dimensions |-> dimensions]
Type(node) == [cls |-> "Type", node |-> node]
Block(name, fields, kind, statement) ==
    [cls |-> "Block", name |-> name, fields |-> fields, kind |-> kind,
     statement |-> statement]
Enum(name, items, statement) ==
    [cls |-> "Enum", name |-> name, items |-> items, statement |-> statement]

\* isinstance(x, six.string_types)
IsStr(x) == x.cls = "str"
\* isinstance(x, IdentifierType): the class and its subclasses Ptr and Array
IsIdentifierType(x) == x.cls \in {"IdentifierType", "Ptr", "Array"}

\* sep.join(words) as one word
RECURSIVE JoinWord(_, _)
JoinWord(sep, words) ==
    IF words = <<>> THEN ""
    ELSE IF Len(words) = 1 THEN words[1]
    ELSE words[1] \o sep \o JoinWord(sep, Tail(words))

\* prefix + text + suffix, for a text of words
Wrap(prefix, text, suffix) ==
    IF text = <<>> THEN <<prefix \o suffix>>
    ELSE IF Len(text) = 1 THEN <<prefix \o text[1] \o suffix>>
    ELSE <<prefix \o text[1]>> \o SubSeq(text, 2, Len(text) - 1)
         \o <<text[Len(text)] \o suffix>>

\* whether x.name / x.type_name exist (else AttributeError)
RECURSIVE HasName(_)
HasName(x) ==
    CASE x.cls \in {"IdentifierType", "Function"} -> TRUE
      [] x.cls \in {"Ptr", "Array"} -> HasName(x.node)
      [] OTHER -> FALSE

RECURSIVE HasTypeName(_)
HasTypeName(x) ==
    CASE x.cls = "IdentifierType" -> TRUE
      [] x.cls \in {"Ptr", "Array"} -> HasTypeName(x.node)
      [] OTHER -> FALSE

\* the name property: IdentifierType.name, Function.name, Ptr.name, Array.name
RECURSIVE NameOf(_)
NameOf(x) ==
    CASE x.cls \in {"IdentifierType", "Function"} -> x.name
      [] x.cls = "Ptr" -> NameOf(x.node)
      [] x.cls = "Array" ->
            IF x.dimensions # <<>>
            THEN NameOf(x.node) \o "[" \o JoinWord("][", x.dimensions) \o "]"
            ELSE NameOf(x.node)

\* the type_name property: IdentifierType.type_name, Ptr.type_name, Array.type_name
RECURSIVE TypeNameOf(_)
TypeNameOf(x) ==
    CASE x.cls = "IdentifierType" -> x.type_name
      [] x.cls = "Ptr" -> Wrap("", TypeNameOf(x.node), "*")
      [] x.cls = "Array" -> TypeNameOf(x.node)

\* IdentifierType.lines, on the properties
IdentifierType_lines(x) ==
    IF NameOf(x) # "" THEN <<TypeNameOf(x) \o <<NameOf(x)>>>> ELSE <<TypeNameOf(x)>>

\* indent + line
Indented(line) == IF line = <<>> THEN <<Indent>> ELSE Wrap(Indent, line, "")

\* whether x.lines() returns (no AttributeError, no failed assert)
RECURSIVE CanLines(_)
CanLines(x) ==
    CASE x.cls = "IdentifierType" -> TRUE
      [] x.cls = "Function" ->
            \A i \in 1..Len(x.args) :
                CanLines(x.args[i]) /\ x.args[i].cls \notin {"Block", "Enum"}
      [] x.cls = "Ptr" ->
            IF x.node.cls = "Function" THEN CanLines(x.node)
            ELSE HasName(x) /\ HasTypeName(x)
      [] x.cls = "Array" -> HasName(x) /\ HasTypeName(x)
      [] x.cls = "Type" -> CanLines(x.node)
      [] x.cls = "Block" -> \A i \in 1..Len(x.fields) : CanLines(x.fields[i])
      [] x.cls = "Enum" -> TRUE
      [] OTHER -> FALSE

RECURSIVE lines(_)
RECURSIVE argstr_from(_, _)
RECURSIVE field_lines(_, _)

\* Function.argstr: ', '.join of the arguments' single lines
argstr_from(args, i) ==
    IF i > Len(args) THEN <<>>
    ELSE IF i = Len(args) THEN lines(args[i])[1]
    ELSE Wrap("", lines(args[i])[1], ",") \o argstr_from(args, i + 1)

argstr(f) == argstr_from(f.args, 1)

\* the loop of Block.lines over the fields
field_lines(fields, i) ==
    IF i > Len(fields) THEN <<>>
    ELSE [k \in 1..Len(lines(fields[i])) |-> Indented(lines(fields[i])[k])]
         \o field_lines(fields, i + 1)

lines(x) ==
    CASE x.cls = "IdentifierType" -> IdentifierType_lines(x)
      [] x.cls = "Function" ->
            <<x.return_type \o Wrap(x.name \o "(", argstr(x), ")")>>
      [] x.cls = "Ptr" ->
            IF x.node.cls = "Function"
            THEN <<x.node.return_type
                   \o Wrap("(*" \o x.node.name \o ")(", argstr(x.node), ")")>>
            ELSE IdentifierType_lines(x)
      [] x.cls = "Array" -> IdentifierType_lines(x)
      [] x.cls = "Type" ->
            <<<<"ctypedef">> \o lines(x.node)[1]>> \o Tail(lines(x.node))
      [] x.cls = "Block" ->
            <<<<x.statement, x.kind, x.name \o ":">>>> \o field_lines(x.fields, 1)
      [] x.cls = "Enum" ->
            <<IF x.name # None /\ x.name # ""
              THEN <<x.statement, "enum", x.name \o ":">>
              ELSE <<"cdef", "enum:">>>>
            \o [k \in 1..Len(x.items) |-> <<Indent \o x.items[k]>>]

\* str(x).split(): the words of all lines of a PxdNode, or of a str itself
RECURSIVE Flatten(_)
Flatten(ls) == IF ls = <<>> THEN <<>> ELSE Head(ls) \o Flatten(Tail(ls))

str_split(x) ==
    CASE x.cls = "str" -> x.text
      [] x.cls = "NoneType" -> <<"None">>
      [] OTHER -> Flatten(lines(x))

-----------------------------------------------------------------------------
(* The walk: NodeVisitor.visit / generic_visit, unfolded.                  *)

Top == Len(visit_stack)

\* The node visit() is about to be called on: the root, or the next child
\* of the node on top of visit_stack.
NextNode ==
    IF visit_stack = <<>> THEN ast
    ELSE children(visit_stack[Top])[pos[Top] + 1]

\* visit(node) is called for a node of one of these kinds
Entering(kinds) ==
    /\ status = "walking"
    /\ \/ visit_stack = <<>>
       \/ /\ visit_stack # <<>>
          /\ pos[Top] < Len(children(visit_stack[Top]))
    /\ NextNode.kind \in kinds

\* generic_visit of the node on top has visited every child
Leaving(kinds) ==
    /\ status = "walking"
    /\ visit_stack # <<>>
    /\ pos[Top] = Len(children(visit_stack[Top]))
    /\ visit_stack[Top].kind \in kinds

\* visit(): visit_stack.append(node), then the handler starts
Push ==
    /\ visit_stack' = Append(visit_stack, NextNode)
    /\ pos' = Append(pos, 0)
    /\ status' = status

\* visit(): visit_stack.pop() and return to the caller's loop
Pop ==
    /\ visit_stack' = SubSeq(visit_stack, 1, Top - 1)
    /\ pos' = IF Top = 1 THEN <<>>
              ELSE [SubSeq(pos, 1, Top - 1) EXCEPT ![Top - 1] = @ + 1]
    /\ status' = IF Top = 1 THEN "visited" ELSE "walking"

\* visit() of a node whose handler visits no child: pushed and popped at once
Step ==
    /\ visit_stack' = visit_stack
    /\ pos' = [pos EXCEPT ![Top] = @ + 1]
    /\ status' = status

\* an exception leaves the walk: translate() produces nothing
Raise ==
    /\ status' = "error"
    /\ UNCHANGED <<ast, visit_stack, pos, decl_stack, stdint_declarations,
                   dimension_stack, constants, pxd_string>>

\* self.append(node), on a value of decl_stack
append(ds, node) == [ds EXCEPT ![Len(ds)] = Append(@, node)]

\* append_top with the entry put first instead of last
append_top_front(ds, node) == [ds EXCEPT ![1] = <<node>> \o @]

\* self.decl_stack[0].append(node), on a value of decl_stack
append_top(ds, node) == [ds EXCEPT ![1] = Append(@, node)]

\* collect(): the list pushed on entry, popped on return
collected == decl_stack[Len(decl_stack)]
popped == SubSeq(decl_stack, 1, Len(decl_stack) - 1)

\* child_of(type, index) for a negative index, on a value of visit_stack
child_of(stack, type, index) ==
    /\ Len(stack) + index + 1 >= 1
    /\ stack[Len(stack) + index + 1].kind = type

\* the names path_name collects from one node of visit_stack
node_names(node) ==
    IF node.kind = "TypeDecl"
    THEN (IF node.declname # None THEN <<node.declname>> ELSE <<>>)
    ELSE IF node.kind \in {"Decl", "Typedef", "Typename", "Struct", "Union",
                           "Enum", "ID", "Enumerator"}
              /\ node.name # None
         THEN <<node.name>>
         ELSE <<>>

RECURSIVE path_names(_, _)
path_names(stack, i) ==
    IF i > Len(stack) - 2 THEN <<>>
    ELSE node_names(stack[i]) \o path_names(stack, i + 1)

path_name(stack, tag) ==
    IF tag = None THEN JoinWord("_", path_names(stack, 1))
    ELSE "_" \o JoinWord("_", path_names(stack, 1)) \o "_" \o tag

-----------------------------------------------------------------------------
(* The handlers.                                                           *)

\* stdint_loop without the test `name not in self.stdint_declarations`
RECURSIVE stdint_loop_repeating(_, _)
stdint_loop_repeating(names, decls) ==
    IF names = <<>> THEN decls
    ELSE stdint_loop_repeating(Tail(names),
            IF Head(names) \in STDINT_DECLARATIONS
            THEN Append(decls, Head(names))
            ELSE decls)

\* visit_IdentifierType: the loop over node.names
RECURSIVE stdint_loop(_, _)
stdint_loop(names, decls) ==
    IF names = <<>> THEN decls
    ELSE stdint_loop(Tail(names),
            IF Head(names) \in STDINT_DECLARATIONS
               /\ \A i \in 1..Len(decls) : decls[i] # Head(names)
            THEN Append(decls, Head(names))
            ELSE decls)

visit_IdentifierType ==
    /\ Entering({"IdentifierType"})
    /\ stdint_declarations' = stdint_loop(NextNode.names, stdint_declarations)
    /\ decl_stack' = append(decl_stack, PyStr(NextNode.names))
    /\ Step
    /\ UNCHANGED <<ast, dimension_stack, constants, pxd_string>>

\* int(s) of a decimal literal
ParseInt(s) == CHOOSE n \in 0..MaxLiteral : ToString(n) = s

\* visit_Enum: the value one enumerator gets, given the running value
enum_item_value(item, value) ==
    IF item.value.kind = "Constant" THEN ParseInt(item.value.value)
    ELSE value + 1

\* visit_Enum: the loop over the enumerators, on the constants table
RECURSIVE enum_loop(_, _, _)
enum_loop(enumerators, value, consts) ==
    IF enumerators = <<>> THEN consts
    ELSE LET item == Head(enumerators)
             v == enum_item_value(item, value)
         IN  enum_loop(Tail(enumerators), v, (item.name :> v) @@ consts)

enum_items(node) == [i \in 1..Len(node.values) |-> node.values[i].name]

\* visit_Enum / visit_Block: type_decl and type_def
is_type_decl(stack) == child_of(stack, "TypeDecl", -2)
is_type_def(stack) == is_type_decl(stack) /\ child_of(stack, "Typedef", -3)

\* visit_Enum: the name of the enum (node is on top of stack)
Enum_name(node, stack) ==
    IF node.name # None THEN node.name
    ELSE IF is_type_def(stack) THEN path_name(stack, None)
    ELSE IF is_type_def(stack) THEN path_name(stack, "e")
    ELSE None

visit_Enum ==
    /\ Entering({"Enum"})
    /\ LET node == NextNode
           stack == Append(visit_stack, node)
           items == enum_items(node)
           name == Enum_name(node, stack)
           hoisted ==
               IF node.name = None /\ is_type_def(stack) /\ Len(items) > 0
               THEN append_top(decl_stack, Enum(name, items, "ctypedef"))
               ELSE LET ds == IF Len(items) > 0
                              THEN append_top(decl_stack, Enum(name, items, "cdef"))
                              ELSE decl_stack
                    IN  IF is_type_decl(stack) THEN append(ds, PyName(name)) ELSE ds
       IN  /\ constants' = enum_loop(node.values, 0, constants)
           /\ decl_stack' = hoisted
    /\ Step
    /\ UNCHANGED <<ast, stdint_declarations, dimension_stack, pxd_string>>

\* visit_Struct / visit_Union: the kind handed to visit_Block
block_kind(node) == IF node.kind = "Struct" THEN "struct" ELSE "union"

\* kind[0]
kind_tag(kind) == IF kind = "struct" THEN "s" ELSE "u"

\* Block_name with the typedef-target case tagged like the others
Block_name_tagged(node, kind, stack) ==
    IF node.name # None THEN node.name
    ELSE path_name(stack, kind_tag(kind))

\* visit_Block: the name of the block (node is on top of stack)
Block_name(node, kind, stack) ==
    IF node.name # None THEN node.name
    ELSE IF is_type_def(stack) THEN path_name(stack, None)
    ELSE path_name(stack, kind_tag(kind))

\* visit_Block of a struct/union without a body: a reference
visit_Block_reference ==
    /\ Entering({"Struct", "Union"})
    /\ NextNode.decls = <<>>
    /\ LET node == NextNode
           stack == Append(visit_stack, node)
       IN  decl_stack' =
               IF is_type_decl(stack)
               THEN append(decl_stack,
                           PyName(Block_name(node, block_kind(node), stack)))
               ELSE decl_stack
    /\ Step
    /\ UNCHANGED <<ast, stdint_declarations, dimension_stack, constants, pxd_string>>

\* visit(), then collect(node), of a handler that starts by collecting
collect ==
    /\ \/ /\ Entering({"Struct", "Union"})
          /\ NextNode.decls # <<>>
       \/ Entering({"TypeDecl", "Decl", "FuncDecl", "PtrDecl", "Typedef"})
    /\ Push
    /\ decl_stack' = Append(decl_stack, <<>>)
    /\ UNCHANGED <<ast, stdint_declarations, dimension_stack, constants, pxd_string>>

\* visit_Block after collect(node): the block goes to the top level
Block_result(node, stack, fields, ds) ==
    LET kind == block_kind(node)
        name == Block_name(node, kind, stack)
    IN  IF is_type_def(stack) /\ node.name = None
        THEN append_top(ds, Block(name, fields, kind, "ctypedef"))
        ELSE LET ds1 == append_top(ds, Block(name, fields, kind, "cdef"))
             IN  IF is_type_decl(stack) THEN append(ds1, PyName(name)) ELSE ds1

visit_Block ==
    /\ Leaving({"Struct", "Union"})
    /\ decl_stack' = Block_result(visit_stack[Top], visit_stack, collected, popped)
    /\ Pop
    /\ UNCHANGED <<ast, stdint_declarations, dimension_stack, constants, pxd_string>>

\* visit_TypeDecl / visit_Decl after collect(node); name is declname or name
Decl_result(name, decls, ds) ==
    IF decls = <<>> THEN ds
    ELSE IF IsStr(decls[1]) THEN append(ds, IdentifierType(name, decls[1].text))
    ELSE append(ds, decls[1])

visit_TypeDecl ==
    /\ Leaving({"TypeDecl"})
    /\ IF Len(collected) > 1 THEN Raise
       ELSE /\ decl_stack' = Decl_result(visit_stack[Top].declname, collected, popped)
            /\ Pop
            /\ UNCHANGED <<ast, stdint_declarations, dimension_stack, constants,
                           pxd_string>>

visit_Decl ==
    /\ Leaving({"Decl"})
    /\ IF Len(collected) > 1 THEN Raise
       ELSE /\ decl_stack' = Decl_result(visit_stack[Top].name, collected, popped)
            /\ Pop
            /\ UNCHANGED <<ast, stdint_declarations, dimension_stack, constants,
                           pxd_string>>

\* visit_FuncDecl: args, with a lone void parameter dropped
FuncDecl_args(decls) ==
    LET args == SubSeq(decls, 1, Len(decls) - 1)
    IN  IF Len(args) = 1 /\ IsIdentifierType(args[1])
           /\ TypeNameOf(args[1]) = <<"void">>
        THEN <<>>
        ELSE args

\* visit_FuncDecl: whether decls[-1].type_name, decls[-1].name and
\* args[0].type_name can be read (else IndexError or AttributeError)
FuncDecl_can_read(decls) ==
    /\ decls # <<>>
    /\ HasTypeName(decls[Len(decls)])
    /\ HasName(decls[Len(decls)])
    /\ (Len(decls) = 2 /\ IsIdentifierType(decls[1])) => HasTypeName(decls[1])

\* FuncDecl_is_variable with the test on the Typedef lost its `not`
FuncDecl_is_variable_typedef(stack) ==
    child_of(stack, "PtrDecl", -2) /\ child_of(stack, "Typedef", -3)

\* visit_FuncDecl: whether a function-pointer alias is synthesized
FuncDecl_is_variable(stack) ==
    child_of(stack, "PtrDecl", -2) /\ ~child_of(stack, "Typedef", -3)

\* visit_FuncDecl after collect(node)
FuncDecl_result(stack, decls, ds) ==
    LET last == decls[Len(decls)]
        return_type == TypeNameOf(last)
        fname == NameOf(last)
        args == FuncDecl_args(decls)
    IN  IF FuncDecl_is_variable(stack)
        THEN LET name == path_name(stack, "ft")
             IN  append(append_top(ds, Type(Ptr(Function(return_type, name, args)))),
                        PyStr(<<name>>))
        ELSE append(ds, Function(return_type, fname, args))

visit_FuncDecl ==
    /\ Leaving({"FuncDecl"})
    /\ IF ~FuncDecl_can_read(collected) THEN Raise
       ELSE /\ decl_stack' = FuncDecl_result(visit_stack, collected, popped)
            /\ Pop
            /\ UNCHANGED <<ast, stdint_declarations, dimension_stack, constants,
                           pxd_string>>

\* PtrDecl_result with '*' appended to a plain-text result
PtrDecl_result_star(decls, ds) ==
    IF IsStr(decls[1]) THEN append(ds, PyStr(Wrap("", decls[1].text, "*")))
    ELSE append(ds, Ptr(decls[1]))

\* visit_PtrDecl after collect(node)
PtrDecl_result(decls, ds) ==
    IF IsStr(decls[1]) THEN append(ds, decls[1])
    ELSE append(ds, Ptr(decls[1]))

visit_PtrDecl ==
    /\ Leaving({"PtrDecl"})
    /\ IF Len(collected) # 1 THEN Raise
       ELSE /\ decl_stack' = PtrDecl_result(collected, popped)
            /\ Pop
            /\ UNCHANGED <<ast, stdint_declarations, dimension_stack, constants,
                           pxd_string>>

\* visit_ArrayDecl: the dimension text of the node
ArrayDecl_dim(node, consts) ==
    IF node.dim.kind = "Constant" THEN node.dim.value
    ELSE IF node.dim.kind = "ID" /\ node.dim.name \in DOMAIN consts
         THEN ToString(consts[node.dim.name])
    ELSE ""

\* visit_ArrayDecl up to collect(node)
visit_ArrayDecl_enter ==
    /\ Entering({"ArrayDecl"})
    /\ dimension_stack' = Append(dimension_stack, ArrayDecl_dim(NextNode, constants))
    /\ Push
    /\ decl_stack' = Append(decl_stack, <<>>)
    /\ UNCHANGED <<ast, stdint_declarations, constants, pxd_string>>

\* visit_ArrayDecl after collect(node): the Array node appended
ArrayDecl_result(decls, dims, ds) == append(ds, Array(decls[1], dims))

\* visit_ArrayDecl after collect(node): dimension_stack afterwards
ArrayDecl_reset(dims) == <<>>

visit_ArrayDecl ==
    /\ Leaving({"ArrayDecl"})
    /\ IF Len(collected) # 1 THEN Raise
       ELSE /\ decl_stack' = ArrayDecl_result(collected, dimension_stack, popped)
            /\ dimension_stack' = ArrayDecl_reset(dimension_stack)
            /\ Pop
            /\ UNCHANGED <<ast, stdint_declarations, constants, pxd_string>>

\* visit_Typedef: whether str(decls[0]).split() has the two words compared
Typedef_can_compare(decl) ==
    /\ decl.cls \in {"str", "NoneType"} \/ CanLines(decl)
    /\ Len(str_split(decl)) >= 2

\* visit_Typedef: names[0] != names[1]
Typedef_keeps(decl) ==
    LET names == str_split(decl) IN names[1] # names[2]

\* visit_Typedef after collect(node)
Typedef_result(decls, ds) ==
    IF Len(decls) # 1 THEN ds
    ELSE IF Typedef_keeps(decls[1]) THEN append_top(ds, Type(decls[1]))
    ELSE ds

visit_Typedef ==
    /\ Leaving({"Typedef"})
    /\ IF Len(collected) = 1 /\ ~Typedef_can_compare(collected[1]) THEN Raise
       ELSE /\ decl_stack' = Typedef_result(collected, popped)
            /\ Pop
            /\ UNCHANGED <<ast, stdint_declarations, dimension_stack, constants,
                           pxd_string>>

\* visit() of a node without a handler: generic_visit starts
generic_visit_enter ==
    /\ Entering({"FileAST", "ParamList", "Typename", "Constant", "ID"})
    /\ Push
    /\ UNCHANGED <<ast, decl_stack, stdint_declarations, dimension_stack,
                   constants, pxd_string>>

\* generic_visit has visited every child; visit() pops
generic_visit_exit ==
    /\ Leaving({"FileAST", "ParamList", "Typename", "Constant", "ID"})
    /\ Pop
    /\ UNCHANGED <<ast, decl_stack, stdint_declarations, dimension_stack,
                   constants, pxd_string>>

-----------------------------------------------------------------------------
(* translate(): the rendering.                                             *)

\* AutoPxd.lines: the loop over decl_stack[0]
RECURSIVE decl_lines(_, _)
decl_lines(decls, i) ==
    IF i > Len(decls) THEN <<>>
    ELSE [k \in 1..Len(lines(decls[i])) |-> Indented(lines(decls[i])[k])]
         \o <<<<>>>> \o decl_lines(decls, i + 1)

AutoPxd_lines(decls) ==
    << <<"cdef", "extern", "from", "\"" \o hdrname \o "\":">>, <<>> >>
    \o decl_lines(decls, 1)

\* ', '.join(stdint_declarations), as words
RECURSIVE comma_join(_)
comma_join(names) ==
    IF names = <<>> THEN <<>>
    ELSE IF Len(names) = 1 THEN <<names[1]>>
    ELSE <<names[1] \o ",">> \o comma_join(Tail(names))

\* the import line translate() puts first, with its blank line
import_lines(stdint) ==
    IF stdint # <<>>
    THEN << <<"from", "libc.stdint", "cimport">> \o comma_join(stdint), <<>> >>
    ELSE <<>>

translate ==
    /\ status = "visited"
    /\ IF \A i \in 1..Len(decl_stack[1]) : CanLines(decl_stack[1][i])
       THEN /\ pxd_string' = import_lines(stdint_declarations)
                             \o AutoPxd_lines(decl_stack[1])
            /\ status' = "done"
            /\ UNCHANGED <<ast, visit_stack, pos, decl_stack, stdint_declarations,
                           dimension_stack, constants>>
       ELSE Raise

-----------------------------------------------------------------------------
(* The translated headers: the top-level declarations parse() hands over.  *)

int_type == ast_IdentifierType(<<"int">>)

\* `words name;`
Variable(name, words) ==
    ast_Decl(name, ast_TypeDecl(name, ast_IdentifierType(words)))

\* an unnamed parameter `words`
Parameter(words) ==
    ast_Typename(None, ast_TypeDecl(None, ast_IdentifierType(words)))

\* enum { A, B = 5, C };
H_enum_ABC ==
    ast_Decl(None, ast_Enum(None,
        <<ast_Enumerator("A", NoNode),
          ast_Enumerator("B", ast_Constant("5")),
          ast_Enumerator("C", NoNode)>>))

\* int arr[C];
H_arr_C == ast_Decl("arr", ast_ArrayDecl(ast_TypeDecl("arr", int_type), ast_ID("C")))

\* int m[2][3];
H_m_2_3 ==
    ast_Decl("m", ast_ArrayDecl(
        ast_ArrayDecl(ast_TypeDecl("m", int_type), ast_Constant("3")),
        ast_Constant("2")))

\* typedef struct { int x; } foo_t;
H_typedef_foo_t ==
    ast_Typedef("foo_t", ast_TypeDecl("foo_t",
        ast_Struct(None, <<Variable("x", <<"int">>)>>)))

\* struct foo_t { uint32_t a; int64_t b; uint32_t c; };
H_struct_foo_t ==
    ast_Decl(None, ast_Struct("foo_t",
        <<Variable("a", <<"uint32_t">>), Variable("b", <<"int64_t">>),
          Variable("c", <<"uint32_t">>)>>))

\* struct bar { int (*cb)(int); };
H_struct_bar ==
    ast_Decl(None, ast_Struct("bar",
        <<ast_Decl("cb", ast_PtrDecl(ast_FuncDecl(
              ast_ParamList(<<Parameter(<<"int">>)>>),
              ast_TypeDecl("cb", int_type))))>>))

\* typedef long long ll;
H_typedef_ll ==
    ast_Typedef("ll", ast_TypeDecl("ll", ast_IdentifierType(<<"long", "long">>)))

\* typedef unsigned int u32;
H_typedef_u32 ==
    ast_Typedef("u32", ast_TypeDecl("u32", ast_IdentifierType(<<"unsigned", "int">>)))

\* typedef struct node node;
H_typedef_node ==
    ast_Typedef("node", ast_TypeDecl("node", ast_Struct("node", <<>>)))

\* typedef int (*fp_t)(int);
H_typedef_fp_t ==
    ast_Typedef("fp_t", ast_PtrDecl(ast_FuncDecl(
        ast_ParamList(<<Parameter(<<"int">>)>>),
        ast_TypeDecl("fp_t", int_type))))

\* enum { X } v;
H_enum_v ==
    ast_Decl("v", ast_TypeDecl("v",
        ast_Enum(None, <<ast_Enumerator("X", NoNode)>>)))

\* typedef enum { P, Q = 2 } color_t;
H_typedef_color_t ==
    ast_Typedef("color_t", ast_TypeDecl("color_t",
        ast_Enum(None, <<ast_Enumerator("P", NoNode),
                         ast_Enumerator("Q", ast_Constant("2"))>>)))

\* struct { int f[3]; } grid[2];
H_grid ==
    ast_Decl("grid", ast_ArrayDecl(
        ast_TypeDecl("grid", ast_Struct(None,
            <<ast_Decl("f", ast_ArrayDecl(ast_TypeDecl("f", int_type),
                                          ast_Constant("3")))>>)),
        ast_Constant("2")))

\* struct ops { int x; char *(*get)(int k); void (*put)(void); };
H_struct_ops ==
    ast_Decl(None, ast_Struct("ops",
        <<Variable("x", <<"int">>),
          ast_Decl("get", ast_PtrDecl(ast_FuncDecl(
              ast_ParamList(<<Variable("k", <<"int">>)>>),
              ast_PtrDecl(ast_TypeDecl("get", ast_IdentifierType(<<"char">>)))))),
          ast_Decl("put", ast_PtrDecl(ast_FuncDecl(
              ast_ParamList(<<Parameter(<<"void">>)>>),
              ast_TypeDecl("put", ast_IdentifierType(<<"void">>)))))>>))

\* typedef union { int i; char c; } val_t;
H_typedef_val_t ==
    ast_Typedef("val_t", ast_TypeDecl("val_t",
        ast_Union(None, <<Variable("i", <<"int">>), Variable("c", <<"char">>)>>)))

\* int g(char *s, uint8_t n);
H_g ==
    ast_Decl("g", ast_FuncDecl(
        ast_ParamList(
            <<ast_Decl("s", ast_PtrDecl(
                  ast_TypeDecl("s", ast_IdentifierType(<<"char">>)))),
              Variable("n", <<"uint8_t">>)>>),
        ast_TypeDecl("g", int_type)))

\* struct box { struct { int x; }; struct { int y; }; };
H_struct_box ==
    ast_Decl(None, ast_Struct("box",
        <<ast_Decl(None, ast_Struct(None, <<Variable("x", <<"int">>)>>)),
          ast_Decl(None, ast_Struct(None, <<Variable("y", <<"int">>)>>))>>))

\* union { int i; struct bar *b; } uv;
H_union_uv ==
    ast_Decl("uv", ast_TypeDecl("uv", ast_Union(None,
        <<Variable("i", <<"int">>),
          ast_Decl("b", ast_PtrDecl(ast_TypeDecl("b", ast_Struct("bar", <<>>))))>>)))

\* typedef struct pt { int x; } pt_t;
H_typedef_pt_t ==
    ast_Typedef("pt_t", ast_TypeDecl("pt_t",
        ast_Struct("pt", <<Variable("x", <<"int">>)>>)))

Headers ==
    {H_enum_ABC, H_arr_C, H_m_2_3, H_typedef_foo_t, H_struct_foo_t, H_struct_bar,
     H_typedef_ll, H_typedef_u32, H_typedef_node, H_typedef_fp_t, H_enum_v,
     H_typedef_color_t, H_grid, H_struct_ops, H_typedef_val_t, H_g,
     H_struct_box, H_union_uv, H_typedef_pt_t}

\* the lists of at most n of these declarations, none twice (a header does
\* not define a name twice)
RECURSIVE DeclLists(_)
DeclLists(n) ==
    IF n = 0 THEN {<<>>}
    ELSE DeclLists(n - 1)
         \cup UNION {{Append(l, h) : h \in {x \in Headers :
                                              \A i \in 1..Len(l) : l[i] # x}} :
                     l \in {x \in DeclLists(n - 1) : Len(x) = n - 1}}

-----------------------------------------------------------------------------

\* AutoPxd.__init__, with the parsed header translate() is about to visit
Init ==
    /\ ast \in {ast_FileAST(ext) : ext \in DeclLists(MaxDecls)}
    /\ visit_stack = <<>>
    /\ pos = <<>>
    /\ decl_stack = <<<<>>>>
    /\ stdint_declarations = <<>>
    /\ dimension_stack = <<>>
    /\ constants = [n \in {} |-> 0]
    /\ status = "walking"
    /\ pxd_string = <<>>

Next ==
    \/ generic_visit_enter
    \/ generic_visit_exit
    \/ collect
    \/ visit_IdentifierType
    \/ visit_Enum
    \/ visit_Block_reference
    \/ visit_Block
    \/ visit_TypeDecl
    \/ visit_Decl
    \/ visit_FuncDecl
    \/ visit_PtrDecl
    \/ visit_ArrayDecl_enter
    \/ visit_ArrayDecl
    \/ visit_Typedef
    \/ translate

Spec == Init /\ [][Next]_vars

-----------------------------------------------------------------------------
(* Properties.                                                             *)

Last(s) == s[Len(s)]

IsPrefix(a, b) == Len(a) <= Len(b) /\ SubSeq(b, 1, Len(a)) = a

toplevel == decl_stack[1]

\* top-level declaration number e of the header has been visited
Visited(e) ==
    \/ status # "walking"
    \/ status = "walking" /\ visit_stack # <<>> /\ pos[1] >= e

\* ---- C1 ----------------------------------------------------------------
\* the value the rule gives enumerator i: its literal, else the previous
\* enumerator's value + 1, else 0 for a first enumerator
RECURSIVE C1_value(_, _)
C1_value(values, i) ==
    IF values[i].value.kind = "Constant" THEN ParseInt(values[i].value.value)
    ELSE IF i = 1 THEN 0
    ELSE C1_value(values, i - 1) + 1

C1_step ==
    /\ Entering({"Enum"}) =>
          \A i \in 1..Len(NextNode.values) :
              /\ NextNode.values[i].name \in DOMAIN constants'
              /\ constants'[NextNode.values[i].name] = C1_value(NextNode.values, i)
    /\ (Entering({"ArrayDecl"}) /\ NextNode.dim.kind = "ID"
            /\ NextNode.dim.name \in DOMAIN constants) =>
          Last(dimension_stack') = ToString(constants[NextNode.dim.name])

\* C1: visit_Enum records for each enumerator its literal, or the previous
\* enumerator's value + 1, or 0 for a first enumerator without a literal;
\* an array dimension given as a recorded name renders the recorded value.
C1_EnumAutoIncrement == [][C1_step]_vars

\* ---- C2 ----------------------------------------------------------------
\* typedef struct/union { ... } name;  (anonymous, with a body)
C2_shape(d) ==
    /\ d.kind = "Typedef"
    /\ d.type.kind = "TypeDecl"
    /\ d.type.type.kind \in {"Struct", "Union"}
    /\ d.type.type.name = None
    /\ d.type.type.decls # <<>>

\* the fields are plain variables: resolving them hoists nothing
C2_plain(d) ==
    \A i \in 1..Len(d.type.type.decls) :
        LET f == d.type.type.decls[i]
        IN  f.kind = "Decl" /\ f.type.kind = "TypeDecl"
            /\ f.type.type.kind = "IdentifierType"

\* C2: a typedef of an anonymous struct/union with a body yields exactly one
\* top-level block, named exactly as the typedef (no tag, no leading
\* underscore), and no TypeAlias entry for the typedef.
C2_TypedefStruct ==
    \A e \in 1..Len(ast.ext) :
        (Visited(e) /\ C2_shape(ast.ext[e])) =>
            /\ Cardinality({i \in 1..Len(toplevel) :
                   /\ toplevel[i].cls = "Block"
                   /\ toplevel[i].statement = "ctypedef"
                   /\ toplevel[i].name = ast.ext[e].name}) = 1
            /\ \A i \in 1..Len(toplevel) :
                   toplevel[i].cls = "Type" =>
                       ~(HasName(toplevel[i].node)
                         /\ NameOf(toplevel[i].node) = ast.ext[e].name)
            /\ (Len(ast.ext) = 1 /\ C2_plain(ast.ext[e])) =>
                   /\ Len(toplevel) = 1
                   /\ toplevel[1].cls = "Block"
                   /\ toplevel[1].name = ast.ext[e].name

C2_Witness ==
    /\ status = "done"
    /\ \E e \in 1..Len(ast.ext) :
          /\ C2_shape(ast.ext[e])
          /\ \E i \in 1..Len(toplevel) :
                toplevel[i].cls = "Block" /\ toplevel[i].name = ast.ext[e].name

\* ---- C3 ----------------------------------------------------------------
\* the function-pointer alias entries of the top level named name
C3_aliases(name) ==
    {k \in 1..Len(toplevel) :
        /\ toplevel[k].cls = "Type"
        /\ toplevel[k].node.cls = "Ptr"
        /\ toplevel[k].node.node.cls = "Function"
        /\ toplevel[k].node.node.name = name}

\* field i of the top-level declaration d is a pointer to a function, and d
\* declares a named struct
C3_shape(d, i) ==
    /\ d.kind = "Decl" /\ d.name = None
    /\ d.type.kind = "Struct" /\ d.type.name # None
    /\ i \in 1..Len(d.type.decls)
    /\ d.type.decls[i].kind = "Decl"
    /\ d.type.decls[i].type.kind = "PtrDecl"
    /\ d.type.decls[i].type.type.kind = "FuncDecl"

\* C3: a pointer-to-function field f of a named struct s yields one top-level
\* function-pointer alias named _s_f_ft, and the field left in the struct is
\* a NamedType of that type text and of the field's name.
C3_FuncPtrField ==
    \A e \in 1..Len(ast.ext) :
        Visited(e) =>
            \A i \in 1..Len(children(children(ast.ext[e])[1])) :
                C3_shape(ast.ext[e], i) =>
                    LET s == ast.ext[e].type.name
                        f == ast.ext[e].type.decls[i].name
                        alias == "_" \o s \o "_" \o f \o "_ft"
                    IN  /\ Cardinality(C3_aliases(alias)) = 1
                        /\ \E j \in 1..Len(toplevel) :
                              /\ toplevel[j].cls = "Block"
                              /\ toplevel[j].name = s
                              /\ Len(toplevel[j].fields) >= i
                              /\ toplevel[j].fields[i] =
                                     [cls |-> "IdentifierType", name |-> f,
                                      type_name |-> <<alias>>]

C3_Witness ==
    /\ status = "done"
    /\ C3_aliases("_bar_cb_ft") # {}
    /\ \E j \in 1..Len(toplevel) :
          /\ toplevel[j].cls = "Block"
          /\ toplevel[j].name = "bar"
          /\ toplevel[j].fields # <<>>
          /\ toplevel[j].fields[1].name = "cb"

\* ---- C4 ----------------------------------------------------------------
\* C4: no two struct/union/enum blocks of the top-level accumulator carry
\* the same name (a block emitted without any name carries none).
C4_UniqueNames ==
    \A i, j \in 1..Len(toplevel) :
        (i # j /\ toplevel[i].cls \in {"Block", "Enum"}
               /\ toplevel[j].cls \in {"Block", "Enum"}
               /\ toplevel[i].name # None) =>
            toplevel[i].name # toplevel[j].name

\* ---- C5 ----------------------------------------------------------------
\* the line of the output on which top-level entry i starts, less one
RECURSIVE C5_offset(_, _)
C5_offset(decls, i) ==
    IF i = 1 THEN 2
    ELSE C5_offset(decls, i - 1) + Len(lines(decls[i - 1])) + 1

\* the struct/union a top-level Typedef or Decl declares with a body
C5_declares_body(d) ==
    /\ d.kind \in {"Typedef", "Decl"}
    /\ d.type.kind = "TypeDecl"
    /\ d.type.type.kind \in {"Struct", "Union"}
    /\ d.type.type.decls # <<>>

C5_step ==
    \* nothing is removed or reordered
    /\ IsPrefix(toplevel, toplevel')
    \* an aggregate's block goes after everything hoisted so far
    /\ Leaving({"Struct", "Union"}) =>
          /\ Len(toplevel') = Len(toplevel) + 1
          /\ Last(toplevel').cls = "Block"
    \* an alias or declaration goes after the block it names
    /\ (Leaving({"Typedef", "Decl"}) /\ Top = 2
            /\ C5_declares_body(visit_stack[Top]) /\ toplevel' # toplevel) =>
          LET entry == Last(toplevel')
              named == IF entry.cls = "Type" THEN entry.node ELSE entry
          IN  \E i \in 1..Len(toplevel) :
                  /\ toplevel[i].cls = "Block"
                  /\ <<toplevel[i].name>> = TypeNameOf(named)
    \* the output lists the entries in append order
    /\ status' = "done" =>
          LET shift == Len(import_lines(stdint_declarations))
              n == Len(toplevel)
          IN  /\ \A i \in 1..n :
                    pxd_string'[shift + C5_offset(toplevel, i) + 1]
                        = Indented(lines(toplevel[i])[1])
              /\ Len(pxd_string') = shift + C5_offset(toplevel, n + 1)

\* a field of block j names a function-pointer alias: the alias comes first
C5_hoisted ==
    \A j \in 1..Len(toplevel) :
        toplevel[j].cls = "Block" =>
            \A i \in 1..Len(toplevel[j].fields) :
                LET f == toplevel[j].fields[i]
                IN  (f.cls = "IdentifierType" /\ Len(f.type_name) = 1
                        /\ C3_aliases(f.type_name[1]) # {}) =>
                    \E k \in C3_aliases(f.type_name[1]) : k < j

\* C5: the top-level accumulator is append-only and emitted in append order:
\* what is hoisted while resolving an aggregate's fields precedes the
\* aggregate's block, and the block precedes the alias or declaration that
\* names it.
C5_AppendOnly == [][C5_step /\ C5_hoisted']_vars

C5_Witness ==
    /\ status = "done"
    /\ \E i, j \in 1..Len(toplevel) :
          /\ i < j
          /\ toplevel[i].cls = "Type" /\ i \in C3_aliases("_bar_cb_ft")
          /\ toplevel[j].cls = "Block" /\ toplevel[j].name = "bar"
    /\ \E i, j \in 1..Len(toplevel) :
          /\ i < j
          /\ toplevel[i].cls = "Block" /\ toplevel[i].name = "pt"
          /\ toplevel[j].cls = "Type" /\ toplevel[j].node.cls = "IdentifierType"
          /\ toplevel[j].node.type_name = <<"pt">>

\* ---- C6 ----------------------------------------------------------------
\* the identifier words of a subtree, in the order the walk meets them
RECURSIVE C6_names_in(_)
RECURSIVE C6_names_in_first(_, _)
C6_names_in(node) ==
    IF node.kind = "IdentifierType" THEN node.names
    ELSE C6_names_in_first(children(node), Len(children(node)))

\* ... of the first n nodes of a list
C6_names_in_first(nodes, n) ==
    IF n = 0 THEN <<>>
    ELSE C6_names_in_first(nodes, n - 1) \o C6_names_in(nodes[n])

\* ... of the identifiers visited so far
RECURSIVE C6_seen_upto(_)
C6_seen_upto(level) ==
    IF level = 0 THEN <<>>
    ELSE C6_seen_upto(level - 1)
         \o C6_names_in_first(children(visit_stack[level]), pos[level])

C6_seen ==
    IF visit_stack # <<>> THEN C6_seen_upto(Top)
    ELSE IF status = "walking" THEN <<>>
    ELSE C6_names_in(ast)

\* the fixed-width names of a list of words, each once, by first occurrence
RECURSIVE C6_first(_, _)
C6_first(words, n) ==
    IF n = 0 THEN <<>>
    ELSE LET before == C6_first(words, n - 1)
         IN  IF words[n] \in STDINT_DECLARATIONS
                /\ \A i \in 1..(n - 1) : words[i] # words[n]
             THEN Append(before, words[n])
             ELSE before

C6_import_lines == {k \in 1..Len(pxd_string) :
                       pxd_string[k] # <<>> /\ pxd_string[k][1] = "from"}

\* C6: stdint_declarations holds each fixed-width name of the identifiers
\* visited so far once, by first occurrence, and nothing else; translate
\* emits one import line listing them in that order, or none when empty.
C6_StdintImport ==
    /\ stdint_declarations = C6_first(C6_seen, Len(C6_seen))
    /\ status = "done" =>
          IF stdint_declarations = <<>> THEN C6_import_lines = {}
          ELSE /\ C6_import_lines = {1}
               /\ pxd_string[1] =
                      <<"from", "libc.stdint", "cimport">>
                      \o [i \in 1..Len(stdint_declarations) |->
                            IF i < Len(stdint_declarations)
                            THEN stdint_declarations[i] \o ","
                            ELSE stdint_declarations[i]]
               /\ pxd_string[2] = <<>>

C6_Witness ==
    /\ status = "done"
    /\ Len(stdint_declarations) = 3
    /\ Len(SelectSeq(C6_seen, LAMBDA w : w \in STDINT_DECLARATIONS)) > 3
    /\ C6_import_lines = {1}

\* ---- C7 ----------------------------------------------------------------
\* the alias name is the whole underlying type text
C7_same(d) ==
    HasName(d) /\ HasTypeName(d) /\ TypeNameOf(d) = <<NameOf(d)>>

C7_step ==
    (Leaving({"Typedef"}) /\ Len(collected) = 1) =>
        IF C7_same(collected[1])
        THEN toplevel' = toplevel
        ELSE toplevel' = Append(toplevel, Type(collected[1]))

\* C7: visit_Typedef discards a typedef of one inner result if and only if
\* the alias name is the whole underlying type text; in every other case it
\* appends a TypeAlias to the top level.
C7_TypedefDiscard == [][C7_step]_vars

\* ---- C8 ----------------------------------------------------------------
\* C8: every bodied anonymous struct, union or enum is emitted and
\* referenced under a non-empty name: no block of the top level lacks a
\* name, and no missing name is left at a call site.
C8_AnonymousNamed ==
    /\ \A i \in 1..Len(toplevel) :
          toplevel[i].cls \in {"Block", "Enum"} =>
              toplevel[i].name # None /\ toplevel[i].name # ""
    /\ \A l \in 1..Len(decl_stack) : \A i \in 1..Len(decl_stack[l]) :
          decl_stack[l][i].cls # "NoneType"

\* ---- C9 ----------------------------------------------------------------
\* the dimensions of a declaration's own chain of ArrayDecls, outer first
RECURSIVE C9_dims(_)
C9_dims(type) ==
    IF type.kind = "ArrayDecl"
    THEN <<ArrayDecl_dim(type, constants)>> \o C9_dims(type.type)
    ELSE <<>>

C9_step ==
    (Leaving({"Decl"}) /\ visit_stack[Top].type.kind = "ArrayDecl") =>
        LET entry == Last(Last(decl_stack'))
        IN  /\ HasName(entry)
            /\ NameOf(entry) =
                   visit_stack[Top].name \o "["
                   \o JoinWord("][", C9_dims(visit_stack[Top].type)) \o "]"

\* C9: the extents rendered after a declaration's name are the dimensions
\* of its own chain of ArrayDecls, each once, outer to inner; no extent of
\* an enclosing array reaches a declaration resolved inside it.
C9_ArrayExtents == [][C9_step]_vars

\* ---- C10 ---------------------------------------------------------------
C10_claimed_step ==
    (Leaving({"PtrDecl"}) /\ Len(collected) = 1) =>
        Last(Last(decl_stack')) =
            IF IsStr(collected[1])
            THEN PyStr(Wrap("", collected[1].text, "*"))
            ELSE Ptr(collected[1])

\* C10 as claimed: visit_PtrDecl passes a plain-text inner result on with
\* '*' appended, and wraps an Output Node in one Pointer node.
C10_PtrDeclStar == [][C10_claimed_step]_vars

C10_step ==
    (Leaving({"PtrDecl"}) /\ Len(collected) = 1) =>
        /\ Len(Last(decl_stack')) = Len(decl_stack[Len(decl_stack) - 1]) + 1
        /\ Last(Last(decl_stack')) =
               IF IsStr(collected[1]) THEN collected[1] ELSE Ptr(collected[1])

\* C10 amended: visit_PtrDecl passes a plain-text inner result on unchanged
\* (no '*' is appended), and wraps an Output Node in one Pointer node.
C10_PtrDeclPassThrough == [][C10_step]_vars

\* a PtrDecl has handed a plain-text result to the Decl above it
C10_Witness ==
    /\ status = "walking"
    /\ visit_stack # <<>>
    /\ visit_stack[Top].kind = "Decl"
    /\ visit_stack[Top].type.kind = "PtrDecl"
    /\ pos[Top] = 1
    /\ collected # <<>>
    /\ IsStr(collected[1])

====
